---- MODULE Spec2Model ----
(***************************************************************************)
(* Model of ERW1.py, a linear script: load the geochemical tables,         *)
(* initialise the PHREEQC engine and search for a database, select a       *)
(* sample, run the engine or fall back to a synthetic series, compute      *)
(* summary statistics, plot, write a text report, print the summary.       *)
(*                                                                         *)
(* The external world (the CSV files, the engine, the plotting library)    *)
(* is a nondeterministic choice made in the action that calls it.          *)
(*                                                                         *)
(* Units.  Oxide percentages are whole percents.  Concentrations of the    *)
(* results table are integers in 1e-7 mol/L, pH and saturation indices in  *)
(* tenths.  A statistic that the script multiplies by 1000 keeps its       *)
(* integer and changes its unit (1e-4 mmol/L).                             *)
(***************************************************************************)
EXTENDS Integers, Sequences, FiniteSets

\* ------------------------------------------------------------------ bounds

\* Largest number of rows of the major-element table.
MaxRows == 2

\* Largest len() of the array get_selected_output_array() returns (a header
\* row and the data rows).
MaxOutLen == 2

\* ------------------------------------------------------------ tabular data

\* pandas' missing value; every numeric cell of the model is greater.
NaN == -1000000

notna(v) == v # NaN

\* The seven oxide columns the script reads from a sample.
OxideCols ==
    {"SiO2_pct", "CaO_pct", "MgO_pct", "Na2O_pct", "K2O_pct", "Fe2O3_pct",
     "Al2O3_pct"}

\* The subset handed to dropna: Al2O3_pct is not in it.
RequiredCols ==
    {"SiO2_pct", "CaO_pct", "MgO_pct", "Na2O_pct", "K2O_pct", "Fe2O3_pct"}

\* The cells a row of the input family may lack: none, or one column.
MissingPatterns == {{}} \cup {{o} : o \in OxideCols}

\* Row k of the file: DDPD_ID k, the cells of `miss` missing, the others k-1
\* percent (so the first row of a file is an all-zero analysis).
MkRow(k, miss) ==
    [DDPD_ID |-> k,
     pct |-> [o \in OxideCols |-> IF o \in miss THEN NaN ELSE k - 1]]

\* The tables pd.read_csv may return.
Tables ==
    UNION {{[k \in 1..n |-> MkRow(k, f[k])] : f \in [1..n -> MissingPatterns]} :
           n \in 0..MaxRows}

\* The value of the name `sample` before it is bound.
NoRow == [DDPD_ID |-> 0, pct |-> [o \in OxideCols |-> NaN]]

\* DataFrame.dropna(subset=...): the rows with every column of subset present,
\* in file order.
dropna(t, subset) ==
    SelectSeq(t, LAMBDA r : \A o \in subset : notna(r.pct[o]))

\* Mutant of complete_samples: Al2O3_pct is demanded as well.
complete_samples_All(t) == dropna(t, OxideCols)

\* complete_samples of the script.
complete_samples(t) == dropna(t, RequiredCols)

\* The fixed default an oxide gets where the script defaults a missing value.
DefaultPct(o) ==
    CASE o = "SiO2_pct" -> 60
      [] o = "CaO_pct" -> 5
      [] o = "MgO_pct" -> 3
      [] o = "Na2O_pct" -> 3
      [] o = "K2O_pct" -> 2
      [] o = "Fe2O3_pct" -> 5
      [] o = "Al2O3_pct" -> 15

\* float(sample[o]) if pd.notna(sample[o]) else <default>
OrDefault(row, o) == IF notna(row.pct[o]) THEN row.pct[o] ELSE DefaultPct(o)

\* Arithmetic of floats: a missing operand gives a missing result.
NAdd(a, b) == IF notna(a) /\ notna(b) THEN a + b ELSE NaN
NSub(a, b) == IF notna(a) /\ notna(b) THEN a - b ELSE NaN
NMul(a, k) == IF notna(a) THEN a * k ELSE NaN

\* total_oxides: the sum of the cells of major_elements that are present.
total_oxides_of(row) ==
    LET RECURSIVE Sum(_)
        Sum(S) == IF S = {} THEN 0
                  ELSE LET o == CHOOSE x \in S : TRUE
                       IN  row.pct[o] + Sum(S \ {o})
    IN  Sum({o \in OxideCols : notna(row.pct[o])})

\* ---------------------------------------------------------- solver payload

\* Molar masses (hundredths of g/mol) of the six mineral phases.
MolarMass(o) ==
    CASE o = "SiO2_pct" -> 6008
      [] o = "CaO_pct" -> 27820
      [] o = "MgO_pct" -> 14070
      [] o = "Na2O_pct" -> 20820
      [] o = "K2O_pct" -> 27830
      [] o = "Fe2O3_pct" -> 15970

\* oxides of generate_advanced_phreeqc_input: every cell read with its default.
oxides(row) == [o \in OxideCols |-> OrDefault(row, o)]

\* mineral_moles, as the template prints them (:.4f): pct / 100 * 1000 / M in
\* units of 1e-4 mol, rounded to nearest.
mineral_moles(row) ==
    [o \in RequiredCols |->
        (oxides(row)[o] * 10000000 * 2 + MolarMass(o)) \div (2 * MolarMass(o))]

\* The acid additions listed in the REACTION block, in thousandths of a mmol.
ReactionIncrements == <<1, 5, 10, 50, 100, 500, 1000>>

\* The text handed to run_string: the sample id of the TITLE line, the six
\* mineral amounts and the REACTION increments; the rest of the template is
\* constant.
generate_advanced_phreeqc_input(row) ==
    [title |-> row.DDPD_ID, moles |-> mineral_moles(row),
     increments |-> ReactionIncrements]

NoInput ==
    [title |-> 0, moles |-> [o \in RequiredCols |-> 0], increments |-> <<>>]

\* ----------------------------------------------------------- results table

\* A results table: where it came from and, per column, its cells in row order.
NoTable == [source |-> "none", cols |-> [c \in {} |-> <<>>]]

columns(df) == DOMAIN df.cols

\* len(results_df)
nrows(df) ==
    IF columns(df) = {} THEN 0
    ELSE Len(df.cols[CHOOSE c \in columns(df) : TRUE])

\* results_df[c].iloc[0] and results_df[c].iloc[-1]
first(df, c) == df.cols[c][1]
last(df, c) == df.cols[c][Len(df.cols[c])]

\* The number of reaction steps of the synthetic series: np.arange(7).
NumSteps == 7

\* The release fractions of the synthetic series, in hundredths.
CaFrac == <<0, 10, 25, 45, 70, 90, 100>>
MgFrac == <<0, 8, 20, 40, 65, 85, 100>>
NaFrac == <<0, 15, 35, 55, 75, 90, 100>>
KFrac == <<0, 10, 30, 50, 70, 85, 100>>

\* The fixed series (pH and saturation indices in tenths, concentrations in
\* 1e-7 mol/L after the division by 1000 of the DataFrame constructor).
pH_values == <<56, 60, 64, 68, 72, 76, 80>>
si_values == <<1000, 3000, 6000, 10000, 15000, 21000, 28000>>
hco3_values == <<500, 3000, 8000, 15000, 25000, 38000, 52000>>
co3_values == <<0, 100, 300, 800, 1500, 2500, 4000>>
calcite_si == <<-28, -21, -14, -7, 0, 6, 11>>
dolomite_si == <<-35, -27, -19, -11, -3, 4, 10>>
gibbsite_si == <<-15, -10, -5, 0, 4, 7, 10>>

\* x_max * fractions: pct * (mmol/L per percent, in hundredths) * fraction.
Scaled(pct, per_pct, frac) == [k \in 1..NumSteps |-> pct * per_pct * frac[k]]

\* Mutant of alkalinity: the carbonate ion is counted once.
alkalinity_Single == [k \in 1..NumSteps |-> hco3_values[k] + co3_values[k]]

\* alkalinity = hco3_values + 2 * co3_values
alkalinity == [k \in 1..NumSteps |-> hco3_values[k] + 2 * co3_values[k]]

\* The five percentages the synthetic branch binds, each with its default.
SyntheticInputs(row) ==
    [cao_pct |-> OrDefault(row, "CaO_pct"),
     mgo_pct |-> OrDefault(row, "MgO_pct"),
     sio2_pct |-> OrDefault(row, "SiO2_pct"),
     na2o_pct |-> OrDefault(row, "Na2O_pct"),
     k2o_pct |-> OrDefault(row, "K2O_pct")]

NoInputs ==
    [cao_pct |-> NaN, mgo_pct |-> NaN, sio2_pct |-> NaN, na2o_pct |-> NaN,
     k2o_pct |-> NaN]

\* The synthetic results table built from those percentages.
SyntheticTable(in) ==
    [source |-> "synthetic",
     cols |->
        [c \in {"pH", "Ca+2", "Mg+2", "Na+", "K+", "SiO2", "HCO3-", "CO3-2",
                "si_Calcite", "si_Dolomite", "si_Gibbsite", "Alk"} |->
            CASE c = "pH" -> pH_values
              [] c = "Ca+2" -> Scaled(in.cao_pct, 8, CaFrac)
              [] c = "Mg+2" -> Scaled(in.mgo_pct, 6, MgFrac)
              [] c = "Na+" -> Scaled(in.na2o_pct, 5, NaFrac)
              [] c = "K+" -> Scaled(in.k2o_pct, 3, KFrac)
              [] c = "SiO2" -> si_values
              [] c = "HCO3-" -> hco3_values
              [] c = "CO3-2" -> co3_values
              [] c = "si_Calcite" -> calcite_si
              [] c = "si_Dolomite" -> dolomite_si
              [] c = "si_Gibbsite" -> gibbsite_si
              [] c = "Alk" -> alkalinity]]

\* The columns the later steps look for in the results table.
ResultCols ==
    {"pH", "Ca+2", "Mg+2", "Na+", "K+", "SiO2", "HCO3-", "CO3-2",
     "si_Calcite", "si_Dolomite", "si_Gibbsite", "Alk"}

\* The engine is a black box.  The headers its selected output may carry: all
\* of ResultCols, or all but one of the columns the statistics look up.
EngineColumnSets ==
    {ResultCols} \cup
    {ResultCols \ {c} :
        c \in {"pH", "Ca+2", "Mg+2", "HCO3-", "Alk", "si_Calcite", "si_Dolomite"}}

\* The columns whose cells pd.to_numeric(errors='coerce') may turn into NaN.
CoercedSets == {{}, {"Ca+2"}}

\* The data rows of get_selected_output_array(): row k of a column holds k,
\* or NaN where the cell was not numeric and was coerced.
EngineTable(colset, coerced, n) ==
    [source |-> "engine",
     cols |-> [c \in colset |-> [k \in 1..n |-> IF c \in coerced THEN NaN ELSE k]]]

\* The tables the engine may return in an output of len_output > 1 rows.
EngineTables(len_output) ==
    {EngineTable(cs, {}, len_output - 1) : cs \in EngineColumnSets} \cup
    {EngineTable(ResultCols, co, len_output - 1) : co \in CoercedSets}

\* What the engine answers to one run: run_string or
\* get_selected_output_array raises; or the output array has len_output rows
\* (none, a header alone, or a header and data rows: `table`); conv_raised
\* says that building the DataFrame or converting a column then raises.
EngineReply(r, n, t, c) ==
    [raised |-> r, len_output |-> n, table |-> t, conv_raised |-> c]

NoReply == [raised |-> FALSE, len_output |-> 0, conv_raised |-> FALSE]

EngineReplies ==
    {EngineReply(TRUE, 0, NoTable, FALSE), EngineReply(FALSE, 0, NoTable, FALSE)}
    \cup {EngineReply(FALSE, 1, EngineTable(ResultCols, {}, 0), FALSE)}
    \cup {EngineReply(FALSE, n, EngineTable(ResultCols, {}, n - 1), TRUE) :
            n \in 2..MaxOutLen}
    \cup UNION {{EngineReply(FALSE, n, t, FALSE) : t \in EngineTables(n)} :
                n \in 2..MaxOutLen}

\* ------------------------------------------------------- summary statistics

\* The key performance indicators, computed as the script computes them.
Statistics(df) ==
    [initial_pH |-> first(df, "pH"),
     final_pH |-> last(df, "pH"),
     pH_change |-> NSub(last(df, "pH"), first(df, "pH")),
     total_ca_release |-> last(df, "Ca+2"),
     total_mg_release |-> last(df, "Mg+2"),
     total_cation_release |-> NAdd(last(df, "Ca+2"), last(df, "Mg+2")),
     co2_sequestration |->
        IF "HCO3-" \in columns(df) THEN NMul(last(df, "HCO3-"), 44) ELSE 0,
     alkalinity_generated |->
        IF "HCO3-" \in columns(df)
        THEN IF "Alk" \in columns(df) THEN last(df, "Alk") ELSE last(df, "HCO3-")
        ELSE 0,
     final_calcite_si |->
        IF "si_Calcite" \in columns(df) THEN last(df, "si_Calcite") ELSE NaN,
     final_dolomite_si |->
        IF "si_Calcite" \in columns(df) THEN last(df, "si_Dolomite") ELSE NaN]

NoStatistics ==
    [initial_pH |-> NaN, final_pH |-> NaN, pH_change |-> NaN,
     total_ca_release |-> NaN, total_mg_release |-> NaN,
     total_cation_release |-> NaN, co2_sequestration |-> NaN,
     alkalinity_generated |-> NaN, final_calcite_si |-> NaN,
     final_dolomite_si |-> NaN]

\* The lookups of the statistics step that raise KeyError on a missing column.
StatisticsKeyError(df) ==
    \/ ~({"pH", "Ca+2", "Mg+2"} \subseteq columns(df))
    \/ "si_Calcite" \in columns(df) /\ "si_Dolomite" \notin columns(df)

\* Mutant of StatisticsBinds: the saturation indices are never bound.
StatisticsBinds_NoSI(df) ==
    {"initial_pH", "final_pH", "pH_change", "total_ca_release",
     "total_mg_release", "total_cation_release", "co2_sequestration",
     "alkalinity_generated"}

\* The names the statistics step binds.
StatisticsBinds(df) ==
    {"initial_pH", "final_pH", "pH_change", "total_ca_release",
     "total_mg_release", "total_cation_release", "co2_sequestration",
     "alkalinity_generated"} \cup
    (IF "si_Calcite" \in columns(df)
     THEN {"final_calcite_si", "final_dolomite_si"} ELSE {})

\* ------------------------------------------------------------------- state

\* The candidate paths of database_paths.
NumDatabasePaths == 7

VARIABLES
    pc,                 \* the statement the script is at
    entered,            \* the numbered steps entered so far, in order
    bound,              \* the names that have been assigned
    majors,             \* the major-element table
    mineralogy_loaded,
    trace_loaded,
    load_failed,        \* the reads of step 1 that raised
    i,                  \* database_paths entries the loop has consumed
    load_calls,         \* the load_database calls, in order: path and outcome
    database_loaded,
    use_synthetic,
    sample,
    total_oxides,
    input_str,          \* the last text handed to run_string
    run_string_calls,
    engine_reply,       \* what the engine answered to run_string
    simulation_success,
    results_df,
    synth_in,           \* cao_pct, mgo_pct, sio2_pct, na2o_pct, k2o_pct
    stats,              \* the key performance indicators
    png_writes,         \* completed savefig calls
    viz_error,          \* the visualization step ended in its except clause
    report_writes,      \* completed writes of the report file
    report,             \* the values the written report embeds
    method              \* the modelling method the completion summary names

vars ==
    <<pc, entered, bound, majors, mineralogy_loaded, trace_loaded,
      load_failed, i, load_calls, database_loaded, use_synthetic, sample,
      total_oxides, input_str, run_string_calls, engine_reply,
      simulation_success, results_df, synth_in, stats, png_writes, viz_error,
      report_writes, report, method>>

loadVars == <<majors, mineralogy_loaded, trace_loaded, load_failed>>
engineVars == <<i, load_calls, database_loaded, use_synthetic>>
sampleVars == <<sample, total_oxides>>
simVars ==
    <<input_str, run_string_calls, engine_reply, simulation_success,
      results_df, synth_in>>
outVars == <<png_writes, viz_error, report_writes, report, method>>

\* The numbered steps of the script, in the order of its text.
StepOrder ==
    <<"load", "init", "select", "simulate", "stats", "plot", "report", "summary">>

\* The numbered step a statement belongs to.
StepOf(label) ==
    CASE label \in {"construct", "dbloop", "pkg", "dbdone"} -> "init"
      [] label = "synth" -> "simulate"
      [] OTHER -> label

\* Mutant of Successor: the plot is followed by the statistics again.
Successor_Loop(label) ==
    CASE label = "load" -> "construct"
      [] label = "dbdone" -> "select"
      [] label = "construct" -> "select"
      [] label = "select" -> "simulate"
      [] label = "simulate" -> "synth"
      [] label = "synth" -> "stats"
      [] label = "stats" -> "plot"
      [] label = "plot" -> "stats"
      [] label = "report" -> "summary"
      [] label = "summary" -> "done"

\* Mutant of Successor: the plot comes before the statistics.
Successor_PlotFirst(label) ==
    CASE label = "load" -> "construct"
      [] label = "dbdone" -> "select"
      [] label = "construct" -> "select"
      [] label = "select" -> "simulate"
      [] label = "simulate" -> "synth"
      [] label = "synth" -> "plot"
      [] label = "plot" -> "stats"
      [] label = "stats" -> "report"
      [] label = "report" -> "summary"
      [] label = "summary" -> "done"

\* The statement that follows a step's last statement in the text.
Successor(label) ==
    CASE label = "load" -> "construct"
      [] label = "dbdone" -> "select"
      [] label = "construct" -> "select"
      [] label = "select" -> "simulate"
      [] label = "simulate" -> "synth"
      [] label = "synth" -> "stats"
      [] label = "stats" -> "plot"
      [] label = "plot" -> "report"
      [] label = "report" -> "summary"
      [] label = "summary" -> "done"

\* The run has ended: normally, by exit(1), or by an uncaught exception.
Terminal == {"done", "exit1", "crashed"}

\* Control moves to `label`; a numbered step is recorded when it is entered.
Goto(label) ==
    /\ pc' = label
    /\ entered' =
          IF label \in Terminal \/ StepOf(label) = StepOf(pc) THEN entered
          ELSE Append(entered, StepOf(label))

NoReport ==
    [n_samples |-> 0, sample_id |-> 0, oxides |-> NoRow.pct, total_oxides |-> 0,
     stats |-> NoStatistics]

Init ==
    /\ pc = "load"
    /\ entered = <<"load">>
    /\ bound = {}
    /\ majors = <<>>
    /\ mineralogy_loaded = FALSE
    /\ trace_loaded = FALSE
    /\ load_failed = {}
    /\ i = 0
    /\ load_calls = <<>>
    /\ database_loaded = FALSE
    /\ use_synthetic = FALSE
    /\ sample = NoRow
    /\ total_oxides = 0
    /\ input_str = NoInput
    /\ run_string_calls = 0
    /\ engine_reply = NoReply
    /\ simulation_success = FALSE
    /\ results_df = NoTable
    /\ synth_in = NoInputs
    /\ stats = NoStatistics
    /\ png_writes = 0
    /\ viz_error = FALSE
    /\ report_writes = 0
    /\ report = NoReport
    /\ method = "none"

\* ------------------------------------------------------- step 1: loading

\* Mutant of Critical: any failed read ends the run.
Critical_Any(failed) == failed # {}

\* The reads whose failure ends the run: the major-element table and its
\* DDPD_ID column.  The two optional tables have try blocks of their own.
Critical(failed) == "majors" \in failed \/ "DDPD_ID" \in failed

\* The reads step 1 makes after the major-element table has loaded, and the
\* ways they may fail together.
LaterReads == {"mineralogy", "trace", "DDPD_ID"}

\* The whole try block of step 1.  Either read_csv of the major-element file
\* raises, or it returns `table` and the reads of `failed` raise.
LoadData ==
    /\ pc = "load"
    /\ \/ /\ load_failed' = {"majors"}
          /\ Critical(load_failed')
          /\ Goto("exit1")
          /\ UNCHANGED <<bound, majors, mineralogy_loaded, trace_loaded>>
       \/ \E table \in Tables, failed \in SUBSET LaterReads :
          /\ load_failed' = failed
          /\ majors' = table
          /\ mineralogy_loaded' = ("mineralogy" \notin failed)
          /\ trace_loaded' = ("trace" \notin failed)
          /\ bound' = bound \cup {"majors", "mineralogy_loaded", "trace_loaded"}
          /\ IF Critical(failed) THEN Goto("exit1") ELSE Goto(Successor("load"))
    /\ UNCHANGED <<engineVars, sampleVars, simVars, stats, outVars>>

\* ------------------------------------------- step 2: engine initialisation

\* phreeqc_mod.IPhreeqc(): on an exception the outer except sets use_synthetic.
ConstructEngine ==
    /\ pc = "construct"
    /\ \E ok \in BOOLEAN :
        IF ok
        THEN /\ bound' = bound \cup {"phreeqc", "database_loaded"}
             /\ database_loaded' = FALSE
             /\ use_synthetic' = use_synthetic
             /\ Goto("dbloop")
        ELSE /\ bound' = bound \cup {"use_synthetic"}
             /\ use_synthetic' = TRUE
             /\ database_loaded' = database_loaded
             /\ Goto(Successor("construct"))
    /\ UNCHANGED <<loadVars, i, load_calls, sampleVars, simVars, stats, outVars>>

\* Mutant of NextPath: a failed path is tried again.
NextPath_Retry(n) == IF n = 0 THEN 1 ELSE n

\* The path the loop hands to load_database next.
NextPath(n) == n + 1

\* One iteration of the for loop: load_database on the next path; success
\* breaks out of the loop, an exception continues with the path after it.
TryDatabase ==
    /\ pc = "dbloop"
    /\ i < NumDatabasePaths
    /\ \E ok \in BOOLEAN :
        /\ load_calls' = Append(load_calls, [path |-> NextPath(i), ok |-> ok])
        /\ i' = NextPath(i)
        /\ database_loaded' = ok
        /\ IF ok THEN Goto("dbdone")
           ELSE IF NextPath(i) >= NumDatabasePaths THEN Goto("pkg")
           ELSE Goto("dbloop")
    /\ UNCHANGED <<bound, loadVars, use_synthetic, sampleVars, simVars, stats,
                   outVars>>

\* The package database, logged in load_calls as the path after the list.
PackagePath == NumDatabasePaths + 1

\* The fallback to the database shipped with the package, entered only with
\* database_loaded false; an exception is passed over.
TryPackageDatabase ==
    /\ pc = "pkg"
    /\ ~database_loaded
    /\ \E ok \in BOOLEAN :
        /\ load_calls' = Append(load_calls, [path |-> PackagePath, ok |-> ok])
        /\ database_loaded' = ok
    /\ Goto("dbdone")
    /\ UNCHANGED <<bound, loadVars, i, use_synthetic, sampleVars, simVars, stats,
                   outVars>>

\* Mutant of UseSyntheticOf: the flag is never set.
UseSyntheticOf_Never(loaded) == FALSE

\* use_synthetic as the if/else after the search sets it.
UseSyntheticOf(loaded) == ~loaded

SetUseSynthetic ==
    /\ pc = "dbdone"
    /\ use_synthetic' = UseSyntheticOf(database_loaded)
    /\ bound' = bound \cup {"use_synthetic"}
    /\ Goto(Successor("dbdone"))
    /\ UNCHANGED <<loadVars, i, load_calls, database_loaded, sampleVars, simVars,
                   stats, outVars>>

\* ------------------------------------------------ step 3: sample selection

\* complete_samples.iloc[0]
FirstOf(rows) == rows[1]

\* dropna, exit(1) on an empty result, else the first complete row becomes
\* the sample and its oxides are summed.
SelectSample ==
    /\ pc = "select"
    /\ IF Len(complete_samples(majors)) = 0
       THEN /\ Goto("exit1")
            /\ UNCHANGED <<bound, sampleVars>>
       ELSE /\ sample' = FirstOf(complete_samples(majors))
            /\ total_oxides' = total_oxides_of(sample')
            /\ bound' = bound \cup {"sample", "sample_id", "major_elements",
                                     "total_oxides"}
            /\ Goto(Successor("select"))
    /\ UNCHANGED <<loadVars, engineVars, simVars, stats, outVars>>

\* ------------------------------------------------------ step 4: simulation

\* Mutant of HasRows: a header without data rows counts as output.
HasRows_NonEmpty(len_output) == len_output > 0

\* if len(output) > 1
HasRows(len_output) == len_output > 1

\* if not use_synthetic
EngineEnabled(synthetic) == ~synthetic

\* The if/else around the engine run.  With the engine enabled the input is
\* generated and run_string is called once.  An exception, or an output
\* without data rows, leaves results_df as it was; otherwise the output
\* becomes results_df, and an exception while it is converted still ends in
\* the except clause.
RunSimulation ==
    /\ pc = "simulate"
    /\ IF EngineEnabled(use_synthetic)
       THEN /\ input_str' = generate_advanced_phreeqc_input(sample)
            /\ run_string_calls' = run_string_calls + 1
            /\ \E reply \in EngineReplies :
                 /\ engine_reply' =
                       [raised |-> reply.raised, len_output |-> reply.len_output,
                        conv_raised |-> reply.conv_raised]
                 /\ IF reply.raised \/ ~HasRows(reply.len_output)
                    THEN /\ simulation_success' = FALSE
                         /\ results_df' = results_df
                         /\ bound' = bound \cup {"input_str", "simulation_success"}
                    ELSE /\ results_df' = reply.table
                         /\ simulation_success' = ~reply.conv_raised
                         /\ bound' = bound \cup {"input_str", "results_df",
                                                  "simulation_success"}
       ELSE /\ simulation_success' = FALSE
            /\ bound' = bound \cup {"simulation_success"}
            /\ UNCHANGED <<input_str, run_string_calls, engine_reply, results_df>>
    /\ Goto(Successor("simulate"))
    /\ UNCHANGED <<loadVars, engineVars, sampleVars, synth_in, stats, outVars>>

\* if not simulation_success
NeedsSynthetic(success) == ~success

\* The synthetic branch: binds the five percentages and overwrites results_df.
GenerateSynthetic ==
    /\ pc = "synth"
    /\ NeedsSynthetic(simulation_success)
    /\ synth_in' = SyntheticInputs(sample)
    /\ results_df' = SyntheticTable(synth_in')
    /\ bound' = bound \cup {"cao_pct", "mgo_pct", "sio2_pct", "na2o_pct",
                             "k2o_pct", "results_df"}
    /\ Goto(Successor("synth"))
    /\ UNCHANGED <<loadVars, engineVars, sampleVars, input_str,
                   run_string_calls, engine_reply, simulation_success, stats,
                   outVars>>

\* The synthetic branch is skipped after a successful engine run.
SkipSynthetic ==
    /\ pc = "synth"
    /\ ~NeedsSynthetic(simulation_success)
    /\ Goto(Successor("synth"))
    /\ UNCHANGED <<bound, loadVars, engineVars, sampleVars, simVars, stats,
                   outVars>>

\* ------------------------------------------------------ step 5: statistics

\* The indicators are read from results_df; a missing column is an uncaught
\* KeyError, iloc[0] of a table without rows an uncaught IndexError, an
\* unbound results_df an uncaught NameError.
ComputeStatistics ==
    /\ pc = "stats"
    /\ IF \/ "results_df" \notin bound
          \/ StatisticsKeyError(results_df)
          \/ nrows(results_df) = 0
       THEN /\ Goto("crashed")
            /\ UNCHANGED <<bound, stats>>
       ELSE /\ stats' = Statistics(results_df)
            /\ bound' = bound \cup StatisticsBinds(results_df)
            /\ Goto(Successor("stats"))
    /\ UNCHANGED <<loadVars, engineVars, sampleVars, simVars, outVars>>

\* ------------------------------------------------------- step 6: the plot

\* The names the nine panels read, given the columns of the table: panel 8
\* reads cao_pct and mgo_pct when both cation columns are there.
PlotReads(df) ==
    {"results_df", "major_elements", "sample_id"} \cup
    (IF {"Ca+2", "Mg+2"} \subseteq columns(df) THEN {"cao_pct", "mgo_pct"} ELSE {})

\* The try block of the plot: an unbound name or an exception of the
\* plotting library (lib_raises) ends in the except clause, before savefig
\* returns; otherwise the PNG is saved.
Visualize ==
    /\ pc = "plot"
    /\ \E lib_raises \in BOOLEAN :
        IF lib_raises \/ ~(PlotReads(results_df) \subseteq bound)
        THEN /\ viz_error' = TRUE
             /\ png_writes' = png_writes
        ELSE /\ viz_error' = viz_error
             /\ png_writes' = png_writes + 1
    /\ Goto(Successor("plot"))
    /\ UNCHANGED <<bound, loadVars, engineVars, sampleVars, simVars, stats,
                   report_writes, report, method>>

\* ------------------------------------------------------ step 7: the report

\* The names the report template reads.
ReportReads ==
    {"majors", "sample_id", "sample", "total_oxides", "initial_pH", "final_pH",
     "pH_change", "total_cation_release", "total_ca_release",
     "total_mg_release", "co2_sequestration", "alkalinity_generated",
     "final_calcite_si", "final_dolomite_si"}

\* The values the template formats: the sample's seven oxide cells as read
\* from the table, and the indicators.
ReportOf(table, row, total, indicators) ==
    [n_samples |-> Len(table), sample_id |-> row.DDPD_ID, oxides |-> row.pct,
     total_oxides |-> total, stats |-> indicators]

\* The f-string is evaluated (an unbound name is an uncaught NameError) and
\* the file is written.
WriteReport ==
    /\ pc = "report"
    /\ IF ReportReads \subseteq bound
       THEN /\ report' = ReportOf(majors, sample, total_oxides, stats)
            /\ report_writes' = report_writes + 1
            /\ bound' = bound \cup {"report"}
            /\ Goto(Successor("report"))
       ELSE /\ Goto("crashed")
            /\ UNCHANGED <<bound, report, report_writes>>
    /\ UNCHANGED <<loadVars, engineVars, sampleVars, simVars, stats,
                   png_writes, viz_error, method>>

\* ----------------------------------------------------- step 8: the summary

\* The names the completion summary reads.
SummaryReads ==
    {"majors", "use_synthetic", "pH_change", "total_cation_release",
     "co2_sequestration", "final_calcite_si"}

\* 'PHREEQC simulation' if not use_synthetic else 'Synthetic modeling'
MethodOf(synthetic) ==
    IF ~synthetic THEN "PHREEQC simulation" ELSE "Synthetic modeling"

\* The completion summary and the final status line.
FinalSummary ==
    /\ pc = "summary"
    /\ IF SummaryReads \subseteq bound
       THEN /\ method' = MethodOf(use_synthetic)
            /\ Goto(Successor("summary"))
       ELSE /\ Goto("crashed")
            /\ method' = method
    /\ UNCHANGED <<bound, loadVars, engineVars, sampleVars, simVars, stats,
                   png_writes, viz_error, report_writes, report>>

\* ----------------------------------------------------------- specification

Next ==
    \/ LoadData
    \/ ConstructEngine
    \/ TryDatabase
    \/ TryPackageDatabase
    \/ SetUseSynthetic
    \/ SelectSample
    \/ RunSimulation
    \/ GenerateSynthetic
    \/ SkipSynthetic
    \/ ComputeStatistics
    \/ Visualize
    \/ WriteReport
    \/ FinalSummary

Spec == Init /\ [][Next]_vars

\* The interpreter runs the next statement: a run stops only at its end.
FairSpec == Spec /\ WF_vars(Next)

\* -------------------------------------------------------------- properties

IsPrefix(a, b) == Len(a) <= Len(b) /\ \A k \in 1..Len(a) : a[k] = b[k]

Entered(step) == \E k \in 1..Len(entered) : entered[k] = step

\* Some load_database call succeeded.
LoadOk == \E k \in 1..Len(load_calls) : load_calls[k].ok

\* C1: the numbered steps are entered in the order of the script's text, each
\* at most once and none again after a later one: the steps entered so far
\* are always an initial part of load, init, select, simulate, stats, plot,
\* report, summary, and the statement being run belongs to the last of them.
C1_FixedStepOrder ==
    /\ IsPrefix(entered, StepOrder)
    /\ pc \notin Terminal => entered[Len(entered)] = StepOf(pc)

\* A run that went through every step.
C1_Witness == pc = "done" /\ entered = StepOrder

\* The engine is unavailable: initialisation is over and either the
\* constructor raised or every load_database call raised.
EngineUnavailable ==
    /\ "use_synthetic" \in bound
    /\ "phreeqc" \notin bound \/ ~LoadOk

\* C2: with the engine or every database unavailable, use_synthetic is true,
\* run_string is never called, and the table the later steps use is the
\* synthetic one.
C2_FallbackWhenUnavailable ==
    EngineUnavailable =>
        /\ use_synthetic
        /\ run_string_calls = 0
        /\ results_df.source # "engine"
        /\ pc \in {"stats", "plot", "report", "summary", "done"} =>
               results_df.source = "synthetic"

\* The seven paths and the package database all failed, and the run finished.
C2_Witness ==
    /\ EngineUnavailable
    /\ Len(load_calls) = PackagePath
    /\ pc = "done"

\* A database loaded and the engine answered one run with a table of data
\* rows that converted without an exception.
EngineSucceeded ==
    /\ LoadOk
    /\ run_string_calls = 1
    /\ ~engine_reply.raised
    /\ ~engine_reply.conv_raised
    /\ engine_reply.len_output > 1

\* C3: once the statistics step is reached results_df is bound, and it is the
\* engine's output exactly when the engine succeeded; in every other case it
\* is the synthetic table of seven rows, whatever the engine left behind.
C3_SingleSource ==
    Entered("stats") =>
        /\ "results_df" \in bound
        /\ results_df.source = "engine" <=> EngineSucceeded
        /\ results_df.source = "synthetic" <=> ~EngineSucceeded
        /\ ~EngineSucceeded =>
               /\ columns(results_df) = ResultCols
               /\ nrows(results_df) = NumSteps

\* The conversion raised after results_df had been bound to the engine's
\* table, and the synthetic table replaced it.
C3_Witness ==
    /\ Entered("stats")
    /\ engine_reply.conv_raised
    /\ results_df.source = "synthetic"

\* C4: load_database is called on the listed paths in list order, each at
\* most once, and on nothing after a call that succeeded; the package
\* database comes only after seven failures; run_string is called at most
\* once.
C4_NoRetry ==
    /\ Len(load_calls) <= PackagePath
    /\ \A k \in 1..Len(load_calls) :
          /\ load_calls[k].path = k
          /\ load_calls[k].ok => k = Len(load_calls)
    /\ run_string_calls <= 1

\* Seven failures, the package database loaded, the one engine run raised,
\* and the run finished.
C4_Witness ==
    /\ Len(load_calls) = PackagePath
    /\ run_string_calls = 1
    /\ engine_reply.raised
    /\ pc = "done"

\* C5: no missing value reaches the solver payload, the synthetic inputs, the
\* summary statistics or the report.
C5_NoMissingValueUsed ==
    /\ \A o \in RequiredCols : input_str.moles[o] >= 0
    /\ "cao_pct" \in bound => \A f \in DOMAIN synth_in : notna(synth_in[f])
    /\ "initial_pH" \in bound =>
          \A n \in StatisticsBinds(results_df) : notna(stats[n])
    /\ report_writes > 0 =>
          /\ \A o \in OxideCols : notna(report.oxides[o])
          /\ \A n \in DOMAIN report.stats : notna(report.stats[n])

\* C6: the PNG and the report are each written at most once, and only with
\* the results table and the statistics computed; a run ended by exit(1) has
\* written neither and has not called run_string.
C6_WriteOnce ==
    /\ png_writes <= 1
    /\ report_writes <= 1
    /\ png_writes > 0 \/ report_writes > 0 =>
          /\ results_df.source # "none"
          /\ "total_cation_release" \in bound
          /\ stats = Statistics(results_df)
    /\ pc = "exit1" =>
          png_writes = 0 /\ report_writes = 0 /\ run_string_calls = 0

\* A run that wrote both files.
C6_Witness == pc = "done" /\ png_writes = 1 /\ report_writes = 1

\* C7: after step 1, a failed read of the major-element table or of its
\* DDPD_ID column has ended the run by exit(1) with the engine untouched; a
\* failed read of the mineralogy or trace table only clears its flag, and
\* the run goes on to the engine initialisation.
C7_LoadSeverity ==
    pc # "load" =>
        /\ "majors" \in load_failed \/ "DDPD_ID" \in load_failed =>
               /\ pc = "exit1"
               /\ entered = <<"load">>
               /\ "phreeqc" \notin bound
               /\ load_calls = <<>>
        /\ "majors" \notin load_failed =>
               /\ {"mineralogy_loaded", "trace_loaded"} \subseteq bound
               /\ mineralogy_loaded = ("mineralogy" \notin load_failed)
               /\ trace_loaded = ("trace" \notin load_failed)
        /\ "majors" \notin load_failed /\ "DDPD_ID" \notin load_failed =>
               Len(entered) >= 2 /\ entered[2] = "init"

\* Both optional tables failed to load and the engine is being initialised.
C7_Witness ==
    /\ load_failed = {"mineralogy", "trace"}
    /\ pc = "construct"
    /\ ~mineralogy_loaded
    /\ ~trace_loaded

\* A row with the six oxides of the claim present.
Qualifies(r) ==
    \A o \in {"SiO2_pct", "CaO_pct", "MgO_pct", "Na2O_pct", "K2O_pct",
               "Fe2O3_pct"} : notna(r.pct[o])

\* C8: once selection is over, the sample is the first row of the table, in
\* file order, with the six oxides present (Al2O3_pct may be missing); with
\* no such row the run has ended by exit(1), with no engine run and no
\* results table.
C8_FirstCompleteRow ==
    Entered("select") /\ pc # "select" =>
        IF \E k \in 1..Len(majors) : Qualifies(majors[k])
        THEN LET k == CHOOSE j \in 1..Len(majors) :
                         /\ Qualifies(majors[j])
                         /\ \A h \in 1..(j - 1) : ~Qualifies(majors[h])
             IN  /\ "sample" \in bound
                 /\ sample = majors[k]
                 /\ pc # "exit1"
        ELSE /\ pc = "exit1"
             /\ "sample" \notin bound
             /\ run_string_calls = 0
             /\ results_df = NoTable

\* The first row lacks a required oxide; the second, which lacks only
\* Al2O3_pct, is the sample.
C8_Witness ==
    /\ Entered("select")
    /\ "sample" \in bound
    /\ sample.DDPD_ID = 2
    /\ ~notna(sample.pct["Al2O3_pct"])

\* The run passed selection and the engine did not deliver the table.
SyntheticRun == "simulation_success" \in bound /\ ~simulation_success

\* C9: a run that passed selection and uses the synthetic series never ends
\* by exit(1) or an uncaught exception and never stops before the final
\* status line: every name each remaining step reads is bound when the step
\* runs, and at the end statistics, plot and report have each been entered
\* once, the report is written, and the plot either saved the PNG or ended
\* in its except clause.
C9_SyntheticRunCompletes ==
    SyntheticRun =>
        /\ pc \in {"synth", "stats", "plot", "report", "summary", "done"}
        /\ pc # "done" => ENABLED Next
        /\ pc = "stats" =>
               /\ "results_df" \in bound
               /\ ~StatisticsKeyError(results_df)
               /\ nrows(results_df) > 0
        /\ pc = "plot" => PlotReads(results_df) \subseteq bound
        /\ pc = "report" => ReportReads \subseteq bound
        /\ pc = "summary" => SummaryReads \subseteq bound
        /\ pc = "done" =>
               /\ entered = StepOrder
               /\ report_writes = 1
               /\ png_writes + (IF viz_error THEN 1 ELSE 0) = 1
               /\ method # "none"

\* A synthetic run at its final status line, with the PNG saved.
C9_Witness ==
    /\ SyntheticRun
    /\ pc = "done"
    /\ png_writes = 1
    /\ report_writes = 1

\* C10: after an exception in the visualization step the run does not stop:
\* the report is written and the final summary is reached.
C10_ReportAfterVizError ==
    viz_error =>
        /\ pc # "crashed"
        /\ pc \in {"summary", "done"} => report_writes = 1

\* The table is sorted upwards along a column.
NonDecreasing(q) == \A k \in 1..(Len(q) - 1) : q[k] <= q[k + 1]

C12_ReportNamesBound ==
    /\ pc = "report" => ReportReads \subseteq bound
    /\ pc = "summary" => SummaryReads \subseteq bound

\* C13: whenever the plot runs, every name its panels read is bound: cao_pct
\* and mgo_pct in particular when the table has the Ca+2 and Mg+2 columns,
\* so that a run on the engine's table with both columns saves the PNG.
C13_PlotNamesBound ==
    /\ pc = "plot" => PlotReads(results_df) \subseteq bound
    /\ /\ results_df.source = "engine"
       /\ {"Ca+2", "Mg+2"} \subseteq columns(results_df)
       /\ pc = "report"
       => {"cao_pct", "mgo_pct"} \subseteq bound

\* C14: the method the completion summary names is 'PHREEQC simulation'
\* exactly when the results table is the engine's and 'Synthetic modeling'
\* exactly when it is the synthetic one.
C14_MethodMatchesSource ==
    pc = "done" =>
        /\ method = "PHREEQC simulation" <=> results_df.source = "engine"
        /\ method = "Synthetic modeling" <=> results_df.source = "synthetic"

====
